---- MODULE Spec2Model ----
(***************************************************************************)
(* Verification-gated submission workflow of the department portal:        *)
(* ResearchSubmissionForm.tsx and JournalSubmissionForm.tsx.               *)
(*                                                                         *)
(* Texts are sequences of characters, so String.prototype.trim is a real   *)
(* operator.  Emails are opaque strings ("" is the empty default), session *)
(* identifiers are positive naturals (0 stands for a missing / falsy       *)
(* sessionId).  Time is in milliseconds relative to the first mount.       *)
(***************************************************************************)
EXTENDS Integers, Sequences, FiniteSets, TLC

\* ---------------------------------------------------------------- bounds
MaxMounts == 2
MaxRows == 2

\* ------------------------------------------------------------- constants
\* 30 * 60 * 1000 in the freshness test of the ingestion effect
TTL == 30 * 60 * 1000

\* the instants at which the clock is observed: they give a proof the ages
\* 0, TTL - 1 (still fresh), TTL (the boundary) and 2 * TTL - 1 (older)
TimePoints == {0, TTL - 1, 2 * TTL - 1}

FormTypes == {"research", "journal"}

\* the purpose constant each form compares the stored proof against
ExpectedPurpose(ft) ==
  IF ft = "research" THEN "research_submission" ELSE "journal_submission"

\* fetch target of onSubmit
SubmitEndpoint(ft) ==
  IF ft = "research" THEN "/api/submissions/research" ELSE "/api/submissions/journal"

\* toast texts
MsgVerified == "Email verified successfully!"
MsgNotVerified == "Verify your campus email before submitting"
MsgNoAuthor == "Add at least one author"
MsgSuccess(ft) ==
  IF ft = "research" THEN "Research submitted for departmental review"
  ELSE "Journal article submitted"
MsgGenericFailure(ft) ==
  IF ft = "research" THEN "Failed to submit research" ELSE "Failed to submit article"

\* ------------------------------------------------------------------ text
Space == " "

\* String.prototype.trim: strip leading and trailing white space
RECURSIVE TrimLeft(_)
TrimLeft(s) ==
  IF s = <<>> THEN <<>>
  ELSE IF Head(s) = Space THEN TrimLeft(Tail(s)) ELSE s

RECURSIVE TrimRight(_)
TrimRight(s) ==
  IF s = <<>> THEN <<>>
  ELSE IF s[Len(s)] = Space THEN TrimRight(SubSeq(s, 1, Len(s) - 1)) ELSE s

Trim(s) == TrimRight(TrimLeft(s))

\* what the user types into a text input
InputTexts == {<<>>, <<" ">>, <<"a", " ">>}

\* the email the external page verified for the k-th record it writes
ProofEmails == <<"a@x.np", "b@x.np", "c@x.np", "d@x.np">>
ProofEmail(k) == ProofEmails[((k - 1) % Len(ProofEmails)) + 1]

\* ------------------------------------------------------------ form values
DefaultPerson == [name |-> <<>>]

\* defaultValues of useForm
defaultValues ==
  [title |-> <<>>,
   submittedByName |-> <<>>,
   submittedByEmail |-> "",
   persons |-> <<DefaultPerson>>]

\* null of useState<{email, sessionId} | null>
Null == [null |-> TRUE]

\* sessionStorage.getItem returns null for a missing key
Absent == [kind |-> "absent"]

NoRequest == [none |-> TRUE]

VARIABLES
  formType,          \* which form component is on the page
  mount,             \* serial number of the mounted component instance
  verifiedParam,     \* searchParams.get("verified")
  isVerified,        \* useState(false)
  verificationData,  \* useState(null)
  values,            \* react-hook-form values
  storage,           \* sessionStorage["verification_complete"]
  now,               \* Date.now()
  request,           \* the request onSubmit is handing to fetch (NoRequest: none)
  net,               \* submission requests awaiting their response
  toast,             \* description of the last toast shown
  accepted,          \* history: the proof record the mounted form ingested last
  consumed,          \* history: the otp_session of every request that succeeded
  writes,            \* history: number of proof records written so far
  response,          \* history: the response the mounted form's onSubmit received last
  \* VerificationStep
  stepName,          \* useState("") name
  stepEmail,         \* useState("") email
  sending,           \* useState(false)
  otpNet,            \* OTP requests awaiting their response, oldest first
  pendingName,       \* sessionStorage["pending_verification_name"]
  location,          \* where the router is: the form page or the pushed URL
  otpResponse,       \* history: the response handleVerify received last
  \* payload construction
  input,             \* the complete form values handed to onSubmit
  payload,           \* the JSON body built from them
  \* getPublicApiUrl
  envUseProxy,       \* process.env.NEXT_PUBLIC_USE_PROXY
  envDebug,          \* process.env.DEBUG_API
  envPublicDebug,    \* process.env.NEXT_PUBLIC_DEBUG_API
  path,              \* the argument of the call
  url                \* what the call returned (<<>>: not called)

formVars == <<formType, mount, verifiedParam, isVerified, verificationData, values,
              storage, now, request, net, toast, accepted, consumed, writes, response>>

stepVars == <<stepName, stepEmail, sending, otpNet, pendingName, location, otpResponse>>

payloadVars == <<input, payload>>

urlVars == <<envUseProxy, envDebug, envPublicDebug, path, url>>

vars == <<formVars, stepVars, payloadVars, urlVars>>

\* the page the forms are on
FormPage == <<"(form page)">>

NoResponse == [kind |-> "none"]

\* a VerificationStep that has just been mounted
StepFresh ==
  /\ stepName = <<>>
  /\ stepEmail = <<>>
  /\ sending = FALSE
  /\ otpNet = <<>>
  /\ pendingName = Absent
  /\ location = FormPage
  /\ otpResponse = NoResponse

NoInput == [none |-> TRUE]

\* onSubmit is not being followed field by field
PayloadIdle == input = NoInput /\ payload = NoInput

\* an environment variable that is not set
Unset == [set |-> FALSE, text |-> <<>>]

\* no environment variable is set and getPublicApiUrl is not being called
UrlIdle ==
  /\ envUseProxy = Unset
  /\ envDebug = Unset
  /\ envPublicDebug = Unset
  /\ path = <<>>
  /\ url = <<>>


\* ------------------------------------------------------------ environment
NoParam == "(null)"
ParamValues == {NoParam, "true", "1"}

\* a value string is truthy in `if (stored)` unless it is null or empty
Truthy(stored) == stored.kind \notin {"absent", "empty"}

\* JSON.parse(stored): throws on text that is not JSON; "null" parses to null
JSONParse(stored) ==
  CASE stored.kind = "record" -> [ok |-> TRUE, isNull |-> FALSE, data |-> stored.data]
    [] stored.kind = "jsonnull" -> [ok |-> TRUE, isNull |-> TRUE, data |-> Null]
    [] OTHER -> [ok |-> FALSE, isNull |-> FALSE, data |-> Null]

\* the records the /verification page may leave under verification_complete
\* while form ft is on the page: complete, without the optional name, without
\* a session identifier, or issued for the other form
\* (pid is a history field: the serial of the record, never read by the forms)
ProofRecords(ft, k, t) ==
  LET full == [purpose |-> ExpectedPurpose(ft), email |-> ProofEmail(k),
               sessionId |-> k, name |-> <<"A", " ", "B">>, verifiedAt |-> t, pid |-> k]
  IN {full,
      [full EXCEPT !.name = <<>>],
      [full EXCEPT !.sessionId = 0],
      [full EXCEPT !.purpose = ExpectedPurpose(CHOOSE o \in FormTypes : o # ft)]}

JunkValues == {[kind |-> "empty"], [kind |-> "garbage"], [kind |-> "jsonnull"]}

NoProof == [pid |-> 0]

\* ------------------------------------------------- verification ingestion
\* variants of ProofAccepted: the purpose test left out; <= for <
ProofAccepted_AnyPurpose(ft, data, tnow) == tnow - data.verifiedAt < TTL

ProofAccepted_Inclusive(ft, data, tnow) ==
  data.purpose = ExpectedPurpose(ft) /\ tnow - data.verifiedAt <= TTL

\* data.purpose === "<form>_submission" && Date.now() - data.verifiedAt < 30 * 60 * 1000
ProofAccepted(ft, data, tnow) ==
  data.purpose = ExpectedPurpose(ft) /\ tnow - data.verifiedAt < TTL

\* variant of AcceptProof: the session identifier is captured, the email is not
AcceptProof_NoEmail(st, data) ==
  [isVerified |-> TRUE,
   verificationData |-> [email |-> "", sessionId |-> data.sessionId],
   values |-> [st.values EXCEPT
                 !.submittedByName = IF data.name # <<>> THEN data.name ELSE @],
   toast |-> MsgVerified,
   accepted |-> data]

\* the state the effect leaves when it accepts the record
AcceptProof(st, data) ==
  [isVerified |-> TRUE,
   verificationData |-> [email |-> data.email, sessionId |-> data.sessionId],
   values |-> [st.values EXCEPT
                 !.submittedByEmail = data.email,
                 !.submittedByName = IF data.name # <<>> THEN data.name ELSE @],
   toast |-> MsgVerified,
   accepted |-> data]

\* variant of IngestEffect: a record that is not accepted clears the flag
IngestEffect_ResetOnReject(ft, verified, stored, tnow, st) ==
  IF verified # "true" THEN st
  ELSE IF ~Truthy(stored) THEN st
  ELSE LET parsed == JSONParse(stored) IN
    IF ~parsed.ok \/ parsed.isNull THEN st
    ELSE IF ProofAccepted(ft, parsed.data, tnow) THEN AcceptProof(st, parsed.data)
    ELSE [st EXCEPT !.isVerified = FALSE, !.verificationData = Null]

\* variant of IngestEffect: a stored value that does not parse to a record
\* lets the form through
IngestEffect_FailOpen(ft, verified, stored, tnow, st) ==
  IF verified # "true" THEN st
  ELSE IF ~Truthy(stored) THEN st
  ELSE LET parsed == JSONParse(stored) IN
    IF ~parsed.ok \/ parsed.isNull THEN [st EXCEPT !.isVerified = TRUE]
    ELSE IF ProofAccepted(ft, parsed.data, tnow) THEN AcceptProof(st, parsed.data)
    ELSE st

\* variant of IngestEffect: any value of the query parameter counts
IngestEffect_AnyParam(ft, verified, stored, tnow, st) ==
  IF verified = NoParam THEN st
  ELSE IF ~Truthy(stored) THEN st
  ELSE LET parsed == JSONParse(stored) IN
    IF ~parsed.ok \/ parsed.isNull THEN st
    ELSE IF ProofAccepted(ft, parsed.data, tnow) THEN AcceptProof(st, parsed.data)
    ELSE st

\* body of the useEffect: st is the component state it runs on
IngestEffect(ft, verified, stored, tnow, st) ==
  IF verified # "true" THEN st
  ELSE IF ~Truthy(stored) THEN st
  ELSE LET parsed == JSONParse(stored) IN
    IF ~parsed.ok \/ parsed.isNull THEN st
    ELSE IF ProofAccepted(ft, parsed.data, tnow) THEN AcceptProof(st, parsed.data)
    ELSE st

\* how the body of the effect ends. JSON.parse and the reads of data.purpose
\* and data.verifiedAt are inside the try block: the SyntaxError of text that
\* is not JSON and the TypeError of reading a property of null both end in
\* the catch block, which logs; nothing in the body throws outside of it
EffectEnd(ft, verified, stored, tnow) ==
  IF verified # "true" THEN "skipped"
  ELSE IF ~Truthy(stored) THEN "skipped"
  ELSE LET parsed == JSONParse(stored) IN
    IF ~parsed.ok THEN "caught"
    ELSE IF parsed.isNull THEN "caught"
    ELSE IF ProofAccepted(ft, parsed.data, tnow) THEN "accepted"
    ELSE "ignored"

ComponentState ==
  [isVerified |-> isVerified, verificationData |-> verificationData,
   values |-> values, toast |-> toast, accepted |-> accepted]

\* useForm({defaultValues}), useState(false), useState(null)
FreshState ==
  [isVerified |-> FALSE, verificationData |-> Null,
   values |-> defaultValues, toast |-> toast, accepted |-> NoProof]

SetComponent(st) ==
  /\ isVerified' = st.isVerified
  /\ verificationData' = st.verificationData
  /\ values' = st.values
  /\ toast' = st.toast
  /\ accepted' = st.accepted

\* the effect returns no cleanup function: unmounting the form leaves the
\* key verification_complete as it is
StorageAfterUnmount(stored) == stored

\* what the page finds under the key when it is entered: what was there, or
\* what the page visited in between has stored (sessionStorage belongs to the
\* tab, so the key is written only while the form is not on the page)
StoredOnEntry(ft, old, k, t) ==
  {old} \cup JunkValues \cup {[kind |-> "record", data |-> d] : d \in ProofRecords(ft, k, t)}

\* first load of the page, possibly on the way back from /verification; the
\* effect runs once after the first render
Init ==
  /\ formType \in FormTypes
  /\ mount = 1
  /\ now = 0
  /\ verifiedParam \in ParamValues
  /\ storage \in StoredOnEntry(formType, Absent, 1, 0)
  /\ writes = IF storage.kind = "record" THEN 1 ELSE 0
  /\ LET st == IngestEffect(formType, verifiedParam, storage, now,
                            [isVerified |-> FALSE, verificationData |-> Null,
                             values |-> defaultValues, toast |-> "",
                             accepted |-> NoProof])
     IN /\ isVerified = st.isVerified
        /\ verificationData = st.verificationData
        /\ values = st.values
        /\ toast = st.toast
        /\ accepted = st.accepted
  /\ request = NoRequest
  /\ net = {}
  /\ consumed = {}
  /\ response = NoResponse
  /\ StepFresh
  /\ PayloadIdle
  /\ UrlIdle

\* the page is left and entered again, possibly through /verification: a new
\* component instance is mounted and its effect runs once
Remount(stored, v) ==
  /\ request = NoRequest
  /\ mount < MaxMounts
  /\ stored \in StoredOnEntry(formType, StorageAfterUnmount(storage), writes + 1, now)
  /\ mount' = mount + 1
  /\ verifiedParam' = v
  /\ storage' = stored
  /\ writes' = IF stored.kind = "record" /\ stored # storage THEN writes + 1 ELSE writes
  /\ SetComponent(IngestEffect(formType, v, stored, now, FreshState))
  /\ response' = NoResponse
  /\ UNCHANGED <<formType, now, request, net, consumed, stepVars, payloadVars, urlVars>>

\* the query string changes while the component stays mounted: the effect
\* runs again (searchParams is a dependency)
SearchParamsChange(v) ==
  /\ request = NoRequest
  /\ v # verifiedParam
  /\ verifiedParam' = v
  /\ SetComponent(IngestEffect(formType, v, storage, now, ComponentState))
  /\ UNCHANGED <<formType, mount, storage, now, request, net, consumed, writes, response, stepVars, payloadVars, urlVars>>

Tick ==
  /\ request = NoRequest
  /\ \E t \in TimePoints : t > now /\ now' = t
  /\ UNCHANGED <<formType, mount, verifiedParam, isVerified, verificationData,
                 values, storage, request, net, toast, accepted, consumed, writes, response, stepVars, payloadVars, urlVars>>

\* ------------------------------------------------------------- form view
\* variant of isSubmitting: the flag is never raised
isSubmitting_Never == FALSE

\* formState.isSubmitting: true while the instance's onSubmit awaits its response
isSubmitting == request # NoRequest \/ \E r \in net : r.mount = mount

\* register(name, {required}): title in both forms, givenName of every author
\* row in the journal form; handleSubmit calls onSubmit only when they pass
RequiredFilled(ft, vals) ==
  /\ vals.title # <<>>
  /\ ft = "journal" => \A i \in 1..Len(vals.persons) : vals.persons[i].name # <<>>

EditTitle(t) ==
  /\ request = NoRequest
  /\ isVerified
  /\ t # values.title
  /\ values' = [values EXCEPT !.title = t]
  /\ UNCHANGED <<formType, mount, verifiedParam, isVerified, verificationData,
                 storage, now, request, net, toast, accepted, consumed, writes, response, stepVars, payloadVars, urlVars>>

EditPersonName(i, t) ==
  /\ request = NoRequest
  /\ isVerified
  /\ i \in 1..Len(values.persons)
  /\ t # values.persons[i].name
  /\ values' = [values EXCEPT !.persons[i].name = t]
  /\ UNCHANGED <<formType, mount, verifiedParam, isVerified, verificationData,
                 storage, now, request, net, toast, accepted, consumed, writes, response, stepVars, payloadVars, urlVars>>

\* "Add participant" / "Add author"
AppendPerson ==
  /\ request = NoRequest
  /\ isVerified
  /\ Len(values.persons) < MaxRows
  /\ values' = [values EXCEPT !.persons = Append(@, DefaultPerson)]
  /\ UNCHANGED <<formType, mount, verifiedParam, isVerified, verificationData,
                 storage, now, request, net, toast, accepted, consumed, writes, response, stepVars, payloadVars, urlVars>>

\* variant of RemoveOffered: every row has a remove button
RemoveOffered_Always(n) == TRUE

\* {fields.length > 1 && <Button ... onClick={() => remove(index)}>}
RemoveOffered(n) == n > 1

\* the remove button of row i
RemovePerson(i) ==
  /\ request = NoRequest
  /\ isVerified
  /\ RemoveOffered(Len(values.persons))
  /\ i \in 1..Len(values.persons)
  /\ values' = [values EXCEPT !.persons =
                  SubSeq(@, 1, i - 1) \o SubSeq(@, i + 1, Len(@))]
  /\ UNCHANGED <<formType, mount, verifiedParam, isVerified, verificationData,
                 storage, now, request, net, toast, accepted, consumed, writes, response, stepVars, payloadVars, urlVars>>

\* -------------------------------------------------------------- onSubmit
\* variant of SubmitAllowed: only the flag is re-checked
SubmitAllowed_FlagOnly(verifiedFlag, vdata) == verifiedFlag

\* if (!isVerified || !verificationData?.sessionId) return
SubmitAllowed(verifiedFlag, vdata) ==
  verifiedFlag /\ vdata # Null /\ vdata.sessionId # 0

\* values.<persons>.map(trim ...).filter(row => row.<name>)
PayloadPersons(vals) ==
  SelectSeq([i \in 1..Len(vals.persons) |-> [name |-> Trim(vals.persons[i].name)]],
            LAMBDA row : row.name # <<>>)

\* variant of Payload: the email is taken from the form field
Payload_TypedEmail(vals, vdata) ==
  [title |-> Trim(vals.title),
   submitted_by_name |-> Trim(vals.submittedByName),
   submitted_by_email |-> vals.submittedByEmail,
   persons |-> PayloadPersons(vals),
   otp_session |-> vdata.sessionId]

\* const payload = {...}
Payload(vals, vdata) ==
  [title |-> Trim(vals.title),
   submitted_by_name |-> Trim(vals.submittedByName),
   submitted_by_email |-> vdata.email,
   persons |-> PayloadPersons(vals),
   otp_session |-> vdata.sessionId]

\* variant of HasNoAuthor: the research form has the check too
HasNoAuthor_BothForms(ft, vals) == PayloadPersons(vals) = <<>>

\* if (authors.length === 0) return   (journal form only)
HasNoAuthor(ft, vals) == ft = "journal" /\ PayloadPersons(vals) = <<>>

\* the synchronous part of onSubmit, up to the fetch call
OnSubmit ==
  IF ~SubmitAllowed(isVerified, verificationData)
  THEN toast' = MsgNotVerified /\ request' = NoRequest
  ELSE IF HasNoAuthor(formType, values)
  THEN toast' = MsgNoAuthor /\ request' = NoRequest
  ELSE /\ toast' = toast
       /\ request' = [mount |-> mount,
                      endpoint |-> SubmitEndpoint(formType),
                      body |-> Payload(values, verificationData),
                      sentAt |-> now,
                      proof |-> accepted]

\* the submit button of the rendered form: handleSubmit(onSubmit)
Submit ==
  /\ request = NoRequest
  /\ isVerified
  /\ ~isSubmitting
  /\ RequiredFilled(formType, values)
  /\ OnSubmit
  /\ UNCHANGED <<formType, mount, verifiedParam, isVerified, verificationData,
                 values, storage, now, net, accepted, consumed, writes, response, stepVars, payloadVars, urlVars>>

\* onSubmit reached while the form view is not rendered (stale state): the
\* defensive re-check is all that runs
SubmitUnverified ==
  /\ request = NoRequest
  /\ ~isVerified
  /\ OnSubmit
  /\ UNCHANGED <<formType, mount, verifiedParam, isVerified, verificationData,
                 values, storage, now, net, accepted, consumed, writes, response, stepVars, payloadVars, urlVars>>

\* fetch(endpoint, {body}): the request leaves the page and onSubmit awaits the
\* response; nothing else runs between building the payload and this call
\* (every other action waits for request = NoRequest)
Fetch ==
  /\ request # NoRequest
  /\ net' = net \cup {[mount |-> request.mount, session |-> request.body.otp_session]}
  /\ request' = NoRequest
  /\ UNCHANGED <<formType, mount, verifiedParam, isVerified, verificationData,
                 values, storage, now, toast, accepted, consumed, writes, response, stepVars, payloadVars, urlVars>>

\* ------------------------------------------------------------- responses
Responses ==
  {[kind |-> "rejected", ok |-> FALSE, json |-> FALSE, detail |-> "", error |-> "",
    message |-> "Failed to fetch"]}
  \cup
  {[kind |-> "http", ok |-> o, json |-> j, detail |-> d, error |-> e, message |-> ""] :
     o \in BOOLEAN, j \in BOOLEAN, d \in {"", "Invalid OTP session"},
     e \in {"", "Server error"}}

\* variant of FailureMessage: the error field is looked at before detail
FailureMessage_ErrorFirst(ft, resp) ==
  IF resp.kind = "rejected" THEN resp.message
  ELSE IF resp.json /\ resp.error # "" THEN resp.error
  ELSE IF resp.json /\ resp.detail # "" THEN resp.detail
  ELSE MsgGenericFailure(ft)

\* data?.detail || data?.error || "Failed to submit ..."; a rejected fetch
\* surfaces the message of the error it rejected with
FailureMessage(ft, resp) ==
  IF resp.kind = "rejected" THEN resp.message
  ELSE IF resp.json /\ resp.detail # "" THEN resp.detail
  ELSE IF resp.json /\ resp.error # "" THEN resp.error
  ELSE MsgGenericFailure(ft)

\* variant of AfterSuccess: the form values are not reset
AfterSuccess_KeepValues(ft, st) ==
  [isVerified |-> FALSE, verificationData |-> Null, values |-> st.values,
   toast |-> MsgSuccess(ft), accepted |-> NoProof]

\* reset(defaultValues); setIsVerified(false); setVerificationData(null)
AfterSuccess(ft, st) ==
  [isVerified |-> FALSE, verificationData |-> Null, values |-> defaultValues,
   toast |-> MsgSuccess(ft), accepted |-> NoProof]

\* variant of AfterFailure: the failure also drops the verification
AfterFailure_Unverify(st, msg) ==
  [st EXCEPT !.toast = msg, !.isVerified = FALSE, !.verificationData = Null]

\* the catch block: a toast and nothing else
AfterFailure(st, msg) == [st EXCEPT !.toast = msg]

\* sessionStorage.removeItem("verification_complete")
StorageAfterSuccess(stored) == Absent

\* the awaited fetch of request r settles with resp; the rest of onSubmit runs.
\* State setters of an instance that is no longer mounted change nothing.
Respond(r, resp) ==
  /\ request = NoRequest
  /\ r \in net
  /\ net' = net \ {r}
  /\ IF resp.kind = "http" /\ resp.ok
     THEN /\ storage' = StorageAfterSuccess(storage)
          /\ consumed' = consumed \cup {r.session}
          /\ IF r.mount = mount
             THEN SetComponent(AfterSuccess(formType, ComponentState))
             ELSE SetComponent([ComponentState EXCEPT !.toast = MsgSuccess(formType)])
     ELSE /\ UNCHANGED <<storage, consumed>>
          /\ IF r.mount = mount
             THEN SetComponent(AfterFailure(ComponentState, FailureMessage(formType, resp)))
             ELSE SetComponent([ComponentState EXCEPT
                                  !.toast = FailureMessage(formType, resp)])
  /\ response' = (IF r.mount = mount THEN resp ELSE response)
  /\ UNCHANGED <<formType, mount, verifiedParam, now, request, writes, stepVars, payloadVars, urlVars>>

\* one response of each outcome: success, server-reported failure, rejected fetch
CoreResponses ==
  {resp \in Responses :
     \/ resp.kind = "rejected"
     \/ resp.json /\ resp.detail # "" /\ resp.error = ""}

Next ==
  \/ \E v \in ParamValues :
       \E stored \in StoredOnEntry(formType, StorageAfterUnmount(storage), writes + 1, now) :
         Remount(stored, v)
  \/ \E v \in ParamValues : SearchParamsChange(v)
  \/ Tick
  \/ \E t \in {<<>>, <<"a", " ">>} : EditTitle(t)
  \/ \E i \in 1..MaxRows, t \in InputTexts : EditPersonName(i, t)
  \/ AppendPerson
  \/ \E i \in 1..MaxRows : RemovePerson(i)
  \/ Submit
  \/ SubmitUnverified
  \/ Fetch
  \/ \E r \in net, resp \in CoreResponses : Respond(r, resp)

Spec == Init /\ [][Next]_vars

\* =================================================================
\* VerificationStep: the view rendered while isVerified is false
\* =================================================================
MsgEnterNameEmail == "Please enter your name and email"
MsgOtpFailure == "Unable to send verification code"
OtpEndpoint == "/api/submissions/otp/request"

\* type: "research" / type: "journal" in the query string
TypeParam(ft) == IF ft = "research" THEN "research" ELSE "journal"

\* what the user types into the two inputs of the step; the email input is
\* type="email", whose value comes without surrounding white space
StepNames == {<<>>, <<" ">>, <<"A", " ", "B">>, <<"A", " ", "B", " ">>}
StepEmails == {<<>>, <<"a", "@", "tcioe.edu.np">>}

\* variant of EncodeChar: nothing is encoded
EncodeChar_Identity(c) == c

\* URLSearchParams.toString: application/x-www-form-urlencoded, character by
\* character (space becomes +, @ is percent-encoded; letters, digits and the
\* dots of a domain name stay, so a domain is kept as one piece)
EncodeChar(c) == IF c = " " THEN "+" ELSE IF c = "@" THEN "%40" ELSE c

EncodeText(s) == [i \in 1..Len(s) |-> EncodeChar(s[i])]

\* `/verification?${params.toString()}` with params email, name, type, session
VerificationUrl(email, name, type, session) ==
  <<"/verification?", "email=">> \o EncodeText(email)
    \o <<"&name=">> \o EncodeText(name)
    \o <<"&type=", type, "&session=", session>>

\* variant of VerifyAllowed: only the name is looked at
VerifyAllowed_NameOnly(name, email) == Trim(name) # <<>>

\* if (!name.trim() || !email.trim()) return
VerifyAllowed(name, email) == Trim(name) # <<>> /\ Trim(email) # <<>>

\* disabled={sending || !name.trim() || !email.trim()}
ContinueEnabled == ~sending /\ Trim(stepName) # <<>> /\ Trim(stepEmail) # <<>>

\* body of the OTP request
OtpBody(ft, name, email) ==
  [email |-> Trim(email), full_name |-> Trim(name), purpose |-> ExpectedPurpose(ft)]

\* handleVerify up to the fetch call; the request keeps the name and email of
\* the render it was started from, which the rest of the handler uses
HandleVerify ==
  IF ~VerifyAllowed(stepName, stepEmail)
  THEN /\ toast' = MsgEnterNameEmail
       /\ UNCHANGED <<sending, otpNet>>
  ELSE /\ sending' = TRUE
       /\ otpNet' = Append(otpNet, [endpoint |-> OtpEndpoint,
                                    name |-> stepName,
                                    email |-> stepEmail,
                                    body |-> OtpBody(formType, stepName, stepEmail)])
       /\ toast' = toast

\* the Continue button; the step is rendered while isVerified is false
ClickContinue ==
  /\ ~isVerified
  /\ location = FormPage
  /\ ContinueEnabled
  /\ HandleVerify
  /\ UNCHANGED <<stepName, stepEmail, pendingName, location, otpResponse>>
  /\ UNCHANGED <<formType, mount, verifiedParam, isVerified, verificationData, values,
                 storage, now, request, net, accepted, consumed, writes, response, payloadVars, urlVars>>

\* handleVerify reached with an empty name or email: its own check is all
\* that runs
VerifyEmpty ==
  /\ ~isVerified
  /\ location = FormPage
  /\ Trim(stepName) = <<>> \/ Trim(stepEmail) = <<>>
  /\ HandleVerify
  /\ UNCHANGED <<stepName, stepEmail, pendingName, location, otpResponse>>
  /\ UNCHANGED <<formType, mount, verifiedParam, isVerified, verificationData, values,
                 storage, now, request, net, accepted, consumed, writes, response, payloadVars, urlVars>>

SetName(t) ==
  /\ ~isVerified
  /\ location = FormPage
  /\ t # stepName
  /\ stepName' = t
  /\ UNCHANGED <<stepEmail, sending, otpNet, pendingName, location, otpResponse>>
  /\ UNCHANGED <<formVars, payloadVars, urlVars>>

SetEmail(t) ==
  /\ ~isVerified
  /\ location = FormPage
  /\ t # stepEmail
  /\ stepEmail' = t
  /\ UNCHANGED <<stepName, sending, otpNet, pendingName, location, otpResponse>>
  /\ UNCHANGED <<formVars, payloadVars, urlVars>>

\* responses of the OTP endpoint: a rejected fetch, or an HTTP response whose
\* body is JSON with the fields below ("" for a field that is missing) or is
\* not JSON at all
OtpResponses ==
  {[kind |-> "rejected", ok |-> FALSE, json |-> FALSE, detail |-> "", error |-> "",
    session_id |-> "", sessionId |-> "", message |-> "Failed to fetch"]}
  \cup
  {[kind |-> "http", ok |-> o, json |-> j, detail |-> d, error |-> e,
    session_id |-> s1, sessionId |-> s2, message |-> ""] :
     o \in BOOLEAN, j \in BOOLEAN, d \in {"", "Too many requests"},
     e \in {"", "Server error"}, s1 \in {"", "s1"}, s2 \in {"", "s2"}}

\* an unparsable body carries no fields; error bodies carry no session and
\* success bodies no error text
CoreOtpResponses ==
  {resp \in OtpResponses :
     \/ resp.kind = "rejected"
     \/ /\ resp.kind = "http"
        /\ ~resp.json => resp.detail = "" /\ resp.error = ""
                          /\ resp.session_id = "" /\ resp.sessionId = ""
        /\ resp.ok => resp.detail = "" /\ resp.error = ""
        /\ ~resp.ok => resp.session_id = "" /\ resp.sessionId = ""}

\* data?.detail || data?.error || "Unable to send verification code", where
\* data is {} when the body is not JSON; a rejected fetch surfaces its message
OtpFailureMessage(resp) ==
  IF resp.kind = "rejected" THEN resp.message
  ELSE IF resp.json /\ resp.detail # "" THEN resp.detail
  ELSE IF resp.json /\ resp.error # "" THEN resp.error
  ELSE MsgOtpFailure

\* data.session_id || data.sessionId; URLSearchParams turns undefined into
\* the text "undefined"
SessionParam(resp) ==
  IF resp.json /\ resp.session_id # "" THEN resp.session_id
  ELSE IF resp.json /\ resp.sessionId # "" THEN resp.sessionId
  ELSE "undefined"

\* sessionStorage.setItem("pending_verification_name", name.trim())
PendingNameAfterSuccess(r) == [kind |-> "text", text |-> Trim(r.name)]

\* the handler goes on after `if (!response.ok) throw`
OtpSucceeded(resp) == resp.kind = "http" /\ resp.ok

\* variant of SendingAfterFailure: the finally block is missing
SendingAfterFailure_Stuck(flag) == flag

\* finally { setSending(false) }
SendingAfterFailure(flag) == FALSE

\* the awaited fetch of the oldest OTP request settles with resp; the rest of
\* handleVerify runs
OtpRespond(resp) ==
  /\ location = FormPage
  /\ otpNet # <<>>
  /\ LET r == Head(otpNet) IN
       /\ otpNet' = Tail(otpNet)
       /\ otpResponse' = resp
       /\ IF OtpSucceeded(resp)
          THEN /\ pendingName' = PendingNameAfterSuccess(r)
               /\ location' = VerificationUrl(Trim(r.email), Trim(r.name),
                                              TypeParam(formType), SessionParam(resp))
               /\ sending' = FALSE
               /\ toast' = toast
          ELSE /\ toast' = OtpFailureMessage(resp)
               /\ sending' = SendingAfterFailure(sending)
               /\ UNCHANGED <<pendingName, location>>
  /\ UNCHANGED <<stepName, stepEmail>>
  /\ UNCHANGED <<formType, mount, verifiedParam, isVerified, verificationData, values,
                 storage, now, request, net, accepted, consumed, writes, response, payloadVars, urlVars>>

\* the user comes back from /verification without a usable proof: the form
\* page mounts a new VerificationStep
ReturnToForm ==
  /\ location # FormPage
  /\ location' = FormPage
  /\ stepName' = <<>>
  /\ stepEmail' = <<>>
  /\ sending' = FALSE
  /\ otpNet' = <<>>
  /\ otpResponse' = NoResponse
  /\ UNCHANGED pendingName
  /\ UNCHANGED <<formVars, payloadVars, urlVars>>

\* the page shows the verification step of either form
VerifyInit ==
  /\ formType \in FormTypes
  /\ mount = 1
  /\ now = 0
  /\ verifiedParam = NoParam
  /\ storage = Absent
  /\ writes = 0
  /\ isVerified = FALSE
  /\ verificationData = Null
  /\ values = defaultValues
  /\ toast = ""
  /\ accepted = NoProof
  /\ request = NoRequest
  /\ net = {}
  /\ consumed = {}
  /\ response = NoResponse
  /\ StepFresh
  /\ PayloadIdle
  /\ UrlIdle

VerifyNext ==
  \/ \E t \in StepNames : SetName(t)
  \/ \E t \in StepEmails : SetEmail(t)
  \/ ClickContinue
  \/ VerifyEmpty
  \/ \E resp \in CoreOtpResponses : OtpRespond(resp)
  \/ ReturnToForm

VerifySpec == VerifyInit /\ [][VerifyNext]_vars

\* =================================================================
\* onSubmit on the complete form values: the JSON body field by field
\* =================================================================
\* JavaScript values of the payload object
JsString(t) == [type |-> "string", value |-> t]
JsNumber(n) == [type |-> "number", value |-> n]
JsArray(s) == [type |-> "array", value |-> s]
JsNaN == [type |-> "NaN"]
JsUndefined == [type |-> "undefined"]

DigitChars == {"0", "1", "2", "3", "4", "5", "6", "7", "8", "9"}

DigitValue(c) ==
  CASE c = "0" -> 0 [] c = "1" -> 1 [] c = "2" -> 2 [] c = "3" -> 3 [] c = "4" -> 4
    [] c = "5" -> 5 [] c = "6" -> 6 [] c = "7" -> 7 [] c = "8" -> 8 [] c = "9" -> 9

RECURSIVE DigitsValue(_)
DigitsValue(s) ==
  IF s = <<>> THEN 0
  ELSE 10 * DigitsValue(SubSeq(s, 1, Len(s) - 1)) + DigitValue(s[Len(s)])

\* Number(text) on texts of digits, letters and blanks: white space is
\* stripped, the empty string is 0, a string of digits is its value, anything
\* else is NaN
NumberOf(s) ==
  LET t == Trim(s) IN
    IF t = <<>> THEN JsNumber(0)
    ELSE IF \A i \in 1..Len(t) : t[i] \in DigitChars THEN JsNumber(DigitsValue(t))
    ELSE JsNaN

\* Number.isNaN(n) ? undefined : n
NumberOrUndefined(n) == IF n.type = "NaN" THEN JsUndefined ELSE n

\* text.trim()
Trimmed(t) == JsString(Trim(t))

\* text.trim() || undefined
TrimmedOrUndefined(t) == IF Trim(t) = <<>> THEN JsUndefined ELSE JsString(Trim(t))

\* text || undefined
OrUndefined(t) == IF t = <<>> THEN JsUndefined ELSE JsString(t)

\* JSON.stringify of an object: members that are undefined are left out
JSONStringify(obj) == [k \in {key \in DOMAIN obj : obj[key].type # "undefined"} |-> obj[k]]

DepartmentUuid == <<"dept-uuid">>

\* defaultValues of the research form, every field
ResearchDefaultParticipant ==
  [fullName |-> <<>>, participantType |-> <<"student">>, email |-> <<>>,
   role |-> <<"Researcher">>, designation |-> <<>>, organization |-> <<>>,
   linkedinUrl |-> <<>>, orcidId |-> <<>>]

ResearchDefaultValues ==
  [title |-> <<>>, abstract |-> <<>>, description |-> <<>>,
   researchType |-> <<"applied">>, status |-> <<"proposed">>,
   principalInvestigator |-> <<>>, piEmail |-> <<>>,
   startDate |-> <<>>, endDate |-> <<>>,
   fundingAgency |-> <<>>, fundingAmount |-> <<>>,
   keywords |-> <<>>, methodology |-> <<>>, expectedOutcomes |-> <<>>,
   publicationsUrl |-> <<>>, projectUrl |-> <<>>, githubUrl |-> <<>>,
   submittedByName |-> <<>>, submittedByEmail |-> <<>>,
   participants |-> <<ResearchDefaultParticipant>>]

\* defaultValues of the journal form, every field
JournalDefaultAuthor ==
  [givenName |-> <<>>, familyName |-> <<>>, email |-> <<>>,
   affiliation |-> <<>>, country |-> <<>>, bio |-> <<>>]

JournalDefaultValues ==
  [title |-> <<>>, genre |-> <<>>, abstract |-> <<>>, keywords |-> <<>>,
   discipline |-> <<>>, year |-> <<>>, volume |-> <<>>, number |-> <<>>,
   pages |-> <<>>, submittedByName |-> <<>>, submittedByEmail |-> <<>>,
   authors |-> <<JournalDefaultAuthor>>]

\* values.participants.map(...): one participant of the payload
ResearchParticipant(p) ==
  [full_name |-> Trimmed(p.fullName),
   participant_type |-> JsString(p.participantType),
   email |-> TrimmedOrUndefined(p.email),
   role |-> TrimmedOrUndefined(p.role),
   designation |-> TrimmedOrUndefined(p.designation),
   organization |-> TrimmedOrUndefined(p.organization),
   linkedin_url |-> TrimmedOrUndefined(p.linkedinUrl),
   orcid_id |-> TrimmedOrUndefined(p.orcidId),
   department |-> JsString(DepartmentUuid)]

\* variant of ResearchParticipants: no row is filtered out
ResearchParticipants_All(v) ==
  [i \in 1..Len(v.participants) |-> ResearchParticipant(v.participants[i])]

\* values.participants.map(...).filter(participant => participant.full_name)
ResearchParticipants(v) ==
  SelectSeq([i \in 1..Len(v.participants) |-> ResearchParticipant(v.participants[i])],
            LAMBDA row : row.full_name.value # <<>>)

\* values.authors.map(...): one author of the payload
JournalAuthor(a) ==
  [given_name |-> Trimmed(a.givenName),
   family_name |-> TrimmedOrUndefined(a.familyName),
   email |-> TrimmedOrUndefined(a.email),
   affiliation |-> TrimmedOrUndefined(a.affiliation),
   country |-> TrimmedOrUndefined(a.country),
   bio |-> TrimmedOrUndefined(a.bio)]

\* values.authors.map(...).filter(author => author.given_name)
JournalAuthors(v) ==
  SelectSeq([i \in 1..Len(v.authors) |-> JournalAuthor(v.authors[i])],
            LAMBDA row : row.given_name.value # <<>>)

\* JSON.stringify of the array of persons
StringifyRows(rows) == JsArray([i \in 1..Len(rows) |-> JSONStringify(rows[i])])

\* the payload object of the research form
ResearchPayload(v, vdata) ==
  [title |-> Trimmed(v.title),
   abstract |-> Trimmed(v.abstract),
   description |-> Trimmed(v.description),
   research_type |-> JsString(v.researchType),
   status |-> JsString(v.status),
   principal_investigator |-> Trimmed(v.principalInvestigator),
   pi_email |-> Trimmed(v.piEmail),
   start_date |-> OrUndefined(v.startDate),
   end_date |-> OrUndefined(v.endDate),
   funding_agency |-> TrimmedOrUndefined(v.fundingAgency),
   funding_amount |-> NumberOrUndefined(NumberOf(v.fundingAmount)),
   keywords |-> TrimmedOrUndefined(v.keywords),
   methodology |-> TrimmedOrUndefined(v.methodology),
   expected_outcomes |-> TrimmedOrUndefined(v.expectedOutcomes),
   publications_url |-> TrimmedOrUndefined(v.publicationsUrl),
   project_url |-> TrimmedOrUndefined(v.projectUrl),
   github_url |-> TrimmedOrUndefined(v.githubUrl),
   submitted_by_name |-> Trimmed(v.submittedByName),
   submitted_by_email |-> JsString(<<vdata.email>>),
   department |-> JsString(DepartmentUuid),
   participants |-> StringifyRows(ResearchParticipants(v)),
   otp_session |-> JsNumber(vdata.sessionId)]

\* the payload object of the journal form
JournalPayload(v, vdata) ==
  [title |-> Trimmed(v.title),
   genre |-> Trimmed(v.genre),
   abstract |-> Trimmed(v.abstract),
   keywords |-> TrimmedOrUndefined(v.keywords),
   discipline |-> TrimmedOrUndefined(v.discipline),
   year |-> NumberOrUndefined(NumberOf(v.year)),
   volume |-> NumberOrUndefined(NumberOf(v.volume)),
   number |-> NumberOrUndefined(NumberOf(v.number)),
   pages |-> TrimmedOrUndefined(v.pages),
   submitted_by_name |-> Trimmed(v.submittedByName),
   submitted_by_email |-> JsString(<<vdata.email>>),
   department |-> JsString(DepartmentUuid),
   authors |-> StringifyRows(JournalAuthors(v)),
   otp_session |-> JsNumber(vdata.sessionId)]

\* register(name, {required}) of the complete forms: title, principal
\* investigator and PI email in the research form; title, genre, abstract and
\* the given name of every author row in the journal form
RequiredFilledFull(ft, v) ==
  IF ft = "research"
  THEN v.title # <<>> /\ v.principalInvestigator # <<>> /\ v.piEmail # <<>>
  ELSE /\ v.title # <<>> /\ v.genre # <<>> /\ v.abstract # <<>>
       /\ \A i \in 1..Len(v.authors) : v.authors[i].givenName # <<>>

\* what the user leaves in a free-text input
FreeTexts == {<<>>, <<" ">>, <<"k", " ">>}

\* the value of an <input type="number">: the browser hands over the empty
\* string unless the content is a valid number
NumberTexts == {<<>>, <<"7">>, <<"1", "2">>}

\* person rows as the user leaves them: untouched, name only with every
\* other text cleared, blank name with other fields filled, complete
ResearchRowInputs ==
  {ResearchDefaultParticipant,
   [ResearchDefaultParticipant EXCEPT !.fullName = <<"A", " ">>, !.role = <<" ">>],
   [ResearchDefaultParticipant EXCEPT !.fullName = <<" ">>, !.email = <<"e">>],
   [ResearchDefaultParticipant EXCEPT !.fullName = <<"B">>, !.designation = <<" ", "d">>,
                                      !.orcidId = <<"o">>]}

JournalRowInputs ==
  {JournalDefaultAuthor,
   [JournalDefaultAuthor EXCEPT !.givenName = <<"A", " ">>],
   [JournalDefaultAuthor EXCEPT !.givenName = <<" ">>, !.email = <<"e">>],
   [JournalDefaultAuthor EXCEPT !.givenName = <<"B">>, !.affiliation = <<" ", "d">>,
                                !.bio = <<"o">>]}

\* sequences of 1..MaxRows rows
RowSeqs(rows) == UNION {[1..n -> rows] : n \in 1..MaxRows}

\* the form values onSubmit may be handed: required fields filled or not,
\* optional and numeric fields in every shape
ResearchInputs ==
  {[ResearchDefaultValues EXCEPT
      !.title = t, !.principalInvestigator = <<"P">>, !.piEmail = <<"p", "@", "x">>,
      !.abstract = a, !.description = a, !.keywords = k, !.fundingAgency = k,
      !.fundingAmount = n, !.submittedByName = <<"A", " ", "B">>,
      !.participants = rows] :
     t \in {<<>>, <<"T", " ">>}, a \in FreeTexts, k \in FreeTexts, n \in NumberTexts,
     rows \in RowSeqs(ResearchRowInputs)}

JournalInputs ==
  {[JournalDefaultValues EXCEPT
      !.title = t, !.genre = <<"G">>, !.abstract = <<"a">>,
      !.keywords = k, !.pages = k, !.year = n, !.volume = n, !.number = m,
      !.submittedByName = <<"A", " ", "B">>,
      !.authors = rows] :
     t \in {<<>>, <<"T", " ">>}, k \in FreeTexts, n \in NumberTexts, m \in NumberTexts,
     rows \in RowSeqs(JournalRowInputs)}

\* the proof a Verified form holds while the payload is built
PayloadProof == [email |-> "a@x.np", sessionId |-> 1]

\* onSubmit of the research form up to JSON.stringify(payload)
BuildResearchPayload ==
  /\ formType = "research"
  /\ payload = NoInput
  /\ RequiredFilledFull(formType, input)
  /\ SubmitAllowed(isVerified, verificationData)
  /\ payload' = JSONStringify(ResearchPayload(input, verificationData))
  /\ UNCHANGED <<formVars, stepVars, input, urlVars>>

\* onSubmit of the journal form up to JSON.stringify(payload); it returns
\* before when no author is left
BuildJournalPayload ==
  /\ formType = "journal"
  /\ payload = NoInput
  /\ RequiredFilledFull(formType, input)
  /\ SubmitAllowed(isVerified, verificationData)
  /\ JournalAuthors(input) # <<>>
  /\ payload' = JSONStringify(JournalPayload(input, verificationData))
  /\ UNCHANGED <<formVars, stepVars, input, urlVars>>

\* a Verified form whose fields the user has filled in
PayloadInit ==
  /\ formType \in FormTypes
  /\ mount = 1
  /\ now = 0
  /\ verifiedParam = "true"
  /\ storage = Absent
  /\ writes = 0
  /\ isVerified = TRUE
  /\ verificationData = PayloadProof
  /\ values = defaultValues
  /\ toast = MsgVerified
  /\ accepted = NoProof
  /\ request = NoRequest
  /\ net = {}
  /\ consumed = {}
  /\ response = NoResponse
  /\ StepFresh
  /\ UrlIdle
  /\ input \in IF formType = "research" THEN ResearchInputs ELSE JournalInputs
  /\ payload = NoInput

PayloadNext == BuildResearchPayload \/ BuildJournalPayload

PayloadSpec == PayloadInit /\ [][PayloadNext]_vars

\* =================================================================
\* getPublicApiUrl: texts are sequences of characters; runs of characters
\* that no test looks into are kept as one piece
\* =================================================================
API_BASE == <<"https:", "/", "/", "cdn.tcioe.edu.np">>

ProxyPrefix == <<"/", "api", "/", "proxy">>

TrueText == <<"t", "r", "u", "e">>

\* String.prototype.toLowerCase, character by character
LowerChar(c) ==
  CASE c = "T" -> "t" [] c = "R" -> "r" [] c = "U" -> "u" [] c = "E" -> "e"
    [] c = "F" -> "f" [] c = "A" -> "a" [] c = "L" -> "l" [] c = "S" -> "s"
    [] OTHER -> c

toLowerCase(s) == [i \in 1..Len(s) |-> LowerChar(s[i])]

\* env || "": undefined and the empty string are both falsy
OrEmpty(env) == IF env.set /\ env.text # <<>> THEN env.text ELSE <<>>

\* (process.env.NEXT_PUBLIC_USE_PROXY || "").toLowerCase() === "true"
USE_PROXY == toLowerCase(OrEmpty(envUseProxy)) = TrueText

\* (PRIVATE_DEBUG_FLAG || PUBLIC_DEBUG_FLAG || "").toLowerCase() === "true"
DEBUG_API ==
  toLowerCase(IF OrEmpty(envDebug) # <<>> THEN envDebug.text
              ELSE OrEmpty(envPublicDebug)) = TrueText

\* variant of StartsWithSlash: the test always fails
StartsWithSlash_Never(p) == FALSE

\* path.startsWith("/")
StartsWithSlash(p) == p # <<>> /\ p[1] = "/"

\* API_BASE.replace(/\/$/, "")
StripTrailingSlash(s) ==
  IF s # <<>> /\ s[Len(s)] = "/" THEN SubSeq(s, 1, Len(s) - 1) ELSE s

\* the debug block holds an empty try: with the flag on or off the function
\* goes on to the same return
getPublicApiUrl(p, useProxy, debug) ==
  IF useProxy
  THEN ProxyPrefix \o (IF StartsWithSlash(p) THEN <<>> ELSE <<"/">>) \o p
  ELSE LET base == StripTrailingSlash(API_BASE)
           suffix == IF StartsWithSlash(p) THEN p ELSE <<"/">> \o p
       IN IF debug THEN base \o suffix ELSE base \o suffix

\* values of the environment variables at build time
Env(t) == [set |-> TRUE, text |-> t]

ProxyEnvs ==
  {Unset, Env(<<>>), Env(TrueText), Env(<<"T", "R", "U", "E">>),
   Env(<<"T", "r", "u", "e">>), Env(<<"f", "a", "l", "s", "e">>), Env(<<"1">>)}

DebugEnvs == {Unset, Env(TrueText), Env(<<"f", "a", "l", "s", "e">>)}

\* arguments of the call
Paths ==
  {<<>>, <<"/">>, <<"x">>, <<"/", "x">>, <<"x", "/">>, <<"/", "/", "x">>,
   <<"x", "/", "y">>, <<"/", "x", "/", "y">>}

\* a caller calls getPublicApiUrl(path)
CallGetPublicApiUrl ==
  /\ url = <<>>
  /\ url' = getPublicApiUrl(path, USE_PROXY, DEBUG_API)
  /\ UNCHANGED <<formVars, stepVars, payloadVars, envUseProxy, envDebug,
                 envPublicDebug, path>>

\* the module is loaded under some environment; the page is as on a first
\* visit
UrlInit ==
  /\ formType \in FormTypes
  /\ mount = 1
  /\ now = 0
  /\ verifiedParam = NoParam
  /\ storage = Absent
  /\ writes = 0
  /\ isVerified = FALSE
  /\ verificationData = Null
  /\ values = defaultValues
  /\ toast = ""
  /\ accepted = NoProof
  /\ request = NoRequest
  /\ net = {}
  /\ consumed = {}
  /\ response = NoResponse
  /\ StepFresh
  /\ PayloadIdle
  /\ envUseProxy \in ProxyEnvs
  /\ envDebug \in DebugEnvs
  /\ envPublicDebug \in DebugEnvs
  /\ path \in Paths
  /\ url = <<>>

UrlNext == CallGetPublicApiUrl

UrlSpec == UrlInit /\ [][UrlNext]_vars

\* =================================================================
\* The two requests and every response they can get: a Verified form that
\* is ready to submit, or a verification step whose fields are filled in
\* =================================================================

\* a body that is not JSON has no fields (data is {})
SubmitResponses ==
  {resp \in Responses : ~resp.json => resp.detail = "" /\ resp.error = ""}

StepResponses ==
  {resp \in OtpResponses :
     ~resp.json => resp.detail = "" /\ resp.error = ""
                   /\ resp.session_id = "" /\ resp.sessionId = ""}

\* the record the form of MessageInit has ingested
MessageProof(ft) ==
  [purpose |-> ExpectedPurpose(ft), email |-> ProofEmail(1), sessionId |-> 1,
   name |-> <<"A", " ", "B">>, verifiedAt |-> 0, pid |-> 1]

MessageInit ==
  /\ formType \in FormTypes
  /\ mount = 1
  /\ now = 0
  /\ writes = 1
  /\ request = NoRequest
  /\ net = {}
  /\ consumed = {}
  /\ response = NoResponse
  /\ StepFresh
  /\ PayloadIdle
  /\ UrlIdle
  /\ \/ \* back from /verification with a proof: the effect has accepted it
        \* and the user has filled in the title
        /\ verifiedParam = "true"
        /\ storage = [kind |-> "record", data |-> MessageProof(formType)]
        /\ LET st == IngestEffect(formType, verifiedParam, storage, now,
                                  [isVerified |-> FALSE, verificationData |-> Null,
                                   values |-> defaultValues, toast |-> "",
                                   accepted |-> NoProof])
           IN /\ isVerified = st.isVerified
              /\ verificationData = st.verificationData
              /\ values = [st.values EXCEPT !.title = <<"a">>,
                                            !.persons[1].name = <<"a">>]
              /\ toast = st.toast
              /\ accepted = st.accepted
     \/ \* first visit: the verification step is shown
        /\ verifiedParam = NoParam
        /\ storage = Absent
        /\ isVerified = FALSE
        /\ verificationData = Null
        /\ values = defaultValues
        /\ toast = ""
        /\ accepted = NoProof

MessageNext ==
  \/ Submit
  \/ Fetch
  \/ \E r \in net, resp \in SubmitResponses : Respond(r, resp)
  \/ \E t \in StepNames : SetName(t)
  \/ \E t \in StepEmails : SetEmail(t)
  \/ ClickContinue
  \/ \E resp \in StepResponses : OtpRespond(resp)

MessageSpec == MessageInit /\ [][MessageNext]_vars

\* =================================================================
\* Properties
\* =================================================================

\* the effect has run in this step: on mount, or because searchParams changed
EffectRan == mount' # mount \/ verifiedParam' # verifiedParam

\* the component state the effect started from keeps its verification state
\* and its form values (a new instance starts Unverified with the defaults)
EffectChangedNothing ==
  IF mount' # mount
  THEN ~isVerified' /\ verificationData' = Null /\ values' = defaultValues
  ELSE UNCHANGED <<isVerified, verificationData, values>>

\* onSubmit has handed a request to fetch in this step
RequestIssued == request = NoRequest /\ request' # NoRequest

\* C1: onSubmit invoked while isVerified is false, or while verificationData
\* holds no sessionId, issues no request to the submission endpoint and
\* leaves form values, verified state and storage unchanged.
C1_NoRequestUnverified ==
  [][ (~isVerified \/ verificationData = Null \/ verificationData.sessionId = 0)
        => /\ ~RequestIssued
           /\ (toast # MsgNotVerified /\ toast' = MsgNotVerified)
                => UNCHANGED <<values, isVerified, verificationData, storage, net>>
    ]_vars

\* onSubmit aborted on a form that is shown as verified but holds no sessionId
C1_Witness ==
  /\ toast = MsgNotVerified
  /\ isVerified /\ verificationData.sessionId = 0
  /\ values.title # <<>>
  /\ request = NoRequest /\ net = {}

\* C2: when the effect runs with verified=true and the stored proof carries
\* another purpose than the form's own, the form stays Unverified, whatever
\* the age of the proof.
C2_PurposeMismatchIgnored ==
  [][ ( /\ EffectRan
        /\ verifiedParam' = "true"
        /\ storage'.kind = "record"
        /\ storage'.data.purpose # ExpectedPurpose(formType) )
        => EffectChangedNothing
    ]_vars

\* a fresh proof of the other form is in storage, verified=true, and the form
\* is Unverified
C2_Witness ==
  /\ mount > 1
  /\ verifiedParam = "true"
  /\ storage.kind = "record"
  /\ storage.data.purpose # ExpectedPurpose(formType)
  /\ now - storage.data.verifiedAt < TTL
  /\ ~isVerified /\ verificationData = Null /\ values = defaultValues

\* C3: when the effect runs with verified=true and a stored proof of the form's
\* purpose whose age is 1,800,000 ms or more, the form stays Unverified; the
\* age of exactly 1,800,000 ms is rejected.
C3_ExpiredIgnored ==
  [][ ( /\ EffectRan
        /\ verifiedParam' = "true"
        /\ storage'.kind = "record"
        /\ storage'.data.purpose = ExpectedPurpose(formType)
        /\ now' - storage'.data.verifiedAt >= 1800000 )
        => EffectChangedNothing
    ]_vars

\* a proof of the form's purpose aged exactly 1,800,000 ms, verified=true, and
\* the form is Unverified
C3_Witness ==
  /\ mount > 1
  /\ verifiedParam = "true"
  /\ storage.kind = "record"
  /\ storage.data.purpose = ExpectedPurpose(formType)
  /\ now - storage.data.verifiedAt = 1800000
  /\ ~isVerified /\ verificationData = Null

\* C4: when the effect runs with verified=true and a stored proof of the form's
\* purpose younger than 1,800,000 ms, the form becomes Verified,
\* verificationData is exactly {email, sessionId} of the proof,
\* submittedByEmail is the proof's email and submittedByName the proof's name
\* when it has one.
C4_FreshProofAccepted ==
  [][ ( /\ EffectRan
        /\ verifiedParam' = "true"
        /\ storage'.kind = "record"
        /\ storage'.data.purpose = ExpectedPurpose(formType)
        /\ now' - storage'.data.verifiedAt < 1800000 )
        => /\ isVerified'
           /\ verificationData' = [email |-> storage'.data.email,
                                   sessionId |-> storage'.data.sessionId]
           /\ values'.submittedByEmail = storage'.data.email
           /\ storage'.data.name # <<>> => values'.submittedByName = storage'.data.name
    ]_vars

\* a proof aged TTL - 1 was accepted and its email and name were filled in
C4_Witness ==
  /\ mount > 1
  /\ isVerified
  /\ now - accepted.verifiedAt = TTL - 1
  /\ storage = [kind |-> "record", data |-> accepted]
  /\ verificationData = [email |-> accepted.email, sessionId |-> accepted.sessionId]
  /\ values.submittedByEmail = accepted.email
  /\ values.submittedByName = <<"A", " ", "B">>
  /\ values.title = <<>>

\* contents the field submittedByEmail could hold other than the proof's email
TypedEmails == {"", "typed@x.np"}

\* C5: every submission request carries submitted_by_email equal to the email
\* of the ingested proof and otp_session equal to the sessionId of that same
\* proof, whatever was edited between ingestion and submit; the payload built
\* from the same values with any other content of the field submittedByEmail
\* carries the same two values.
C5_PayloadCarriesProof ==
  request # NoRequest =>
    /\ request.body.submitted_by_email = accepted.email
    /\ request.body.otp_session = accepted.sessionId
    /\ \A e \in TypedEmails :
         LET body == Payload([values EXCEPT !.submittedByEmail = e], verificationData)
         IN /\ body.submitted_by_email = accepted.email
            /\ body.otp_session = accepted.sessionId

\* a request built after the title and the person rows were edited
C5_Witness ==
  /\ request # NoRequest
  /\ request.body.title = <<"a">>
  /\ Len(values.persons) = 2
  /\ request.body.submitted_by_email = ProofEmail(accepted.pid)
  /\ request.body.otp_session = accepted.pid

\* the awaited request of the mounted instance has settled in this step
OwnRequestSettled == \E r \in net : r.mount = mount /\ net' = net \ {r}

C7_FailurePreserves ==
  [][ (OwnRequestSettled /\ toast' # MsgSuccess(formType))
        => /\ UNCHANGED <<values, isVerified, verificationData, storage>>
           /\ isVerified' /\ verificationData'.sessionId # 0
           /\ ~(\E r \in net' : r.mount = mount)
    ]_vars

\* after a failed submission the same form has issued a request again
C7_Witness ==
  /\ toast = "Invalid OTP session"
  /\ request # NoRequest /\ request.mount = mount
  /\ storage = [kind |-> "record", data |-> accepted]
  /\ Len(values.persons) = 2

\* C8 (as claimed): at the moment a request is sent to a submission endpoint,
\* now - verifiedAt of the ingested proof is below 30 minutes.
C8_RequestOnlyWhileFresh ==
  request # NoRequest => request.sentAt - request.proof.verifiedAt < 1800000

\* C9: within one mount, isVerified goes from true to false only as the effect
\* of a successful submission: never by an edit, a row append or remove, an
\* aborted or failed submission, or a re-run of the ingestion effect.
C9_UnverifyOnlyBySuccess ==
  [][ (isVerified /\ ~isVerified' /\ mount' = mount)
        => OwnRequestSettled /\ toast' = MsgSuccess(formType)
    ]_vars

\* the form is still Verified although the record in storage has expired and a
\* submission was aborted by the re-check
C9_Witness ==
  /\ isVerified
  /\ now - accepted.verifiedAt >= TTL
  /\ verifiedParam = "true"
  /\ storage.kind = "record"
  /\ toast = MsgNotVerified

\* C10 (as claimed): no otp_session is sent in a request after a request
\* carrying it has succeeded.
C10_NoSessionReuse ==
  request # NoRequest => request.body.otp_session \notin consumed

\* the effect has run in this step and accepted the record in storage
EffectAccepted ==
  /\ EffectRan
  /\ verifiedParam' = "true"
  /\ storage'.kind = "record"
  /\ ProofAccepted(formType, storage'.data, now')

\* C11 (as claimed): a record that a form has ingested and accepted is not
\* accepted again by a later run of the ingestion effect.
C11_ConsumedOnce ==
  [][ EffectAccepted => storage'.data # accepted ]_vars

\* C12 (as claimed): when the form is unmounted the key verification_complete
\* is removed, so the next instance never finds the record that was in storage
\* while the previous one was mounted.
C12_RemovedOnUnmount ==
  [][ (mount' # mount /\ storage.kind = "record") => storage' # storage ]_vars

\* number of submission requests of instance m that have been issued and
\* have not settled
InFlightOf(m) ==
  Cardinality({r \in net : r.mount = m})
    + (IF request # NoRequest /\ request.mount = m THEN 1 ELSE 0)

\* C16 (amended): every form instance has at most one submission request in
\* flight at any time; while onSubmit awaits its response no user action on
\* that instance starts a second one.
C16_OneInFlightPerInstance ==
  \A m \in 1..mount : InFlightOf(m) <= 1

\* the request of the mounted instance is awaiting its response while the
\* form is Verified, its required fields are filled and rows were edited
C16_Witness ==
  /\ request = NoRequest
  /\ \E r \in net : r.mount = mount
  /\ isVerified
  /\ RequiredFilled(formType, values)
  /\ Len(values.persons) = 2
  /\ toast = "Invalid OTP session"

\* C16 (as claimed): at most one submission request is in flight at any time.
C16_OneInFlight ==
  Cardinality(net) + (IF request # NoRequest THEN 1 ELSE 0) <= 1

\* handleVerify has sent an OTP request in this step
OtpRequestIssued == Len(otpNet') > Len(otpNet)

\* the awaited OTP request has settled in this step
OtpSettled == otpNet # <<>> /\ otpNet' = Tail(otpNet)

\* C17: an OTP request is issued only when name and email are non-empty after
\* trimming and no OTP request is being sent; it goes to
\* /api/submissions/otp/request. A handleVerify that is stopped by its check
\* sends nothing, writes nothing to storage and does not navigate.
C17_OtpRequestGuarded ==
  [][ /\ OtpRequestIssued
        => /\ Trim(stepName) # <<>>
           /\ Trim(stepEmail) # <<>>
           /\ ~sending
           /\ otpNet = <<>>
           /\ otpNet'[1].endpoint = "/api/submissions/otp/request"
      /\ (toast # MsgEnterNameEmail /\ toast' = MsgEnterNameEmail)
        => UNCHANGED <<otpNet, sending, pendingName, location, storage>>
    ]_vars

\* after a handleVerify stopped by its check, the fields were filled in and a
\* request with the trimmed name is in flight
C17_Witness ==
  /\ toast = MsgEnterNameEmail
  /\ sending
  /\ Len(otpNet) = 1
  /\ otpNet[1].name = <<"A", " ", "B", " ">>
  /\ otpNet[1].body.full_name = <<"A", " ", "B">>
  /\ otpNet[1].body.email = <<"a", "@", "tcioe.edu.np">>

\* C18: on a successful OTP response that carries a session identifier, the
\* step stores the trimmed name under pending_verification_name and navigates
\* once, from the form page, to /verification with email, name, type and
\* session URL-encoded: a@tcioe.edu.np / "A B" / journal / s1 gives
\* /verification?email=a%40tcioe.edu.np&name=A+B&type=journal&session=s1;
\* session is session_id, or sessionId when session_id is missing.
C18_NavigateAfterOtp ==
  [][ ( /\ OtpSettled
        /\ otpResponse'.kind = "http" /\ otpResponse'.ok /\ otpResponse'.json
        /\ otpResponse'.session_id # "" \/ otpResponse'.sessionId # "" )
        => /\ pendingName' = [kind |-> "text", text |-> <<"A", " ", "B">>]
           /\ location = FormPage
           /\ location' =
                <<"/verification?", "email=", "a", "%40", "tcioe.edu.np",
                  "&name=", "A", "+", "B",
                  "&type=", IF formType = "journal" THEN "journal" ELSE "research",
                  "&session=",
                  IF otpResponse'.session_id # "" THEN otpResponse'.session_id
                  ELSE otpResponse'.sessionId>>
    ]_vars

\* the journal form has navigated with the session s1 issued for input that
\* had surrounding white space
C18_Witness ==
  /\ formType = "journal"
  /\ otpResponse.kind = "http"
  /\ otpResponse.session_id = "s1"
  /\ pendingName = [kind |-> "text", text |-> <<"A", " ", "B">>]
  /\ location = <<"/verification?", "email=", "a", "%40", "tcioe.edu.np",
                  "&name=", "A", "+", "B", "&type=", "journal", "&session=", "s1">>

\* C19: when the OTP request fails (non-2xx response or rejected fetch) the
\* step does not navigate, does not write pending_verification_name, keeps
\* name and email, and sets sending back to false.
C19_OtpFailureKeepsStep ==
  [][ (OtpSettled /\ ~(otpResponse'.kind = "http" /\ otpResponse'.ok))
        => /\ UNCHANGED <<location, pendingName, stepName, stepEmail>>
           /\ location' = FormPage
           /\ ~sending'
    ]_vars

\* after a rejected fetch the same step has sent a request again
C19_Witness ==
  /\ otpResponse.kind = "rejected"
  /\ toast = "Failed to fetch"
  /\ sending /\ Len(otpNet) = 1
  /\ pendingName = Absent

\* C20 (as claimed): a response whose body is not JSON is handled as a failure
\* with the generic message whatever its HTTP status: the verification step
\* does not navigate.
C20_NonJsonIsFailure ==
  [][ (OtpSettled /\ otpResponse'.kind = "http" /\ ~otpResponse'.json)
        => location' = FormPage /\ toast' = MsgOtpFailure
    ]_vars

\* the name field of a person row of either form
RowName(row) == IF "fullName" \in DOMAIN row THEN row.fullName ELSE row.givenName

\* the rows with a name that is not blank, in their order
RECURSIVE NamedRows(_)
NamedRows(rows) ==
  IF rows = <<>> THEN <<>>
  ELSE IF Trim(RowName(Head(rows))) # <<>>
       THEN <<Head(rows)>> \o NamedRows(Tail(rows))
       ELSE NamedRows(Tail(rows))

\* the other free-text fields of a person row and their payload keys
OptionalRowFields(ft) ==
  IF ft = "research"
  THEN {<<"email", "email">>, <<"role", "role">>, <<"designation", "designation">>,
        <<"organization", "organization">>, <<"linkedinUrl", "linkedin_url">>,
        <<"orcidId", "orcid_id">>}
  ELSE {<<"familyName", "family_name">>, <<"email", "email">>,
        <<"affiliation", "affiliation">>, <<"country", "country">>, <<"bio", "bio">>}

\* C13: the person array of every payload holds exactly the rows whose name is
\* non-empty after trimming, in their original order, with the name trimmed;
\* each other free-text field of a row is absent when blank and trimmed
\* otherwise, so a row with only a name is sent with all of them absent.
C13_NamedRowsOnly ==
  payload # NoInput =>
    LET out == IF formType = "research" THEN payload.participants.value
               ELSE payload.authors.value
        kept == NamedRows(IF formType = "research" THEN input.participants
                          ELSE input.authors)
        nameKey == IF formType = "research" THEN "full_name" ELSE "given_name"
    IN /\ Len(out) = Len(kept)
       /\ \A j \in 1..Len(out) :
            /\ out[j][nameKey].value = Trim(RowName(kept[j]))
            /\ \A f \in OptionalRowFields(formType) :
                 IF Trim(kept[j][f[1]]) = <<>>
                 THEN f[2] \notin DOMAIN out[j]
                 ELSE out[j][f[2]].value = Trim(kept[j][f[1]])

\* a row with a blank name was dropped and the row after it, which has a name
\* and every other text blank, was sent with only its name, type and department
C13_Witness ==
  /\ formType = "research"
  /\ payload # NoInput
  /\ Len(input.participants) = 2
  /\ input.participants[1].fullName = <<" ">>
  /\ input.participants[2].fullName = <<"A", " ">>
  /\ Len(payload.participants.value) = 1
  /\ DOMAIN payload.participants.value[1] = {"full_name", "participant_type", "department"}
  /\ payload.participants.value[1].full_name.value = <<"A">>

\* the numeric inputs of a form and their payload keys
NumericFields(ft) ==
  IF ft = "research" THEN {<<"fundingAmount", "funding_amount">>}
  ELSE {<<"year", "year">>, <<"volume", "volume">>, <<"number", "number">>}

\* a text that is a number: digits, possibly surrounded by blanks
IsNumericText(t) ==
  Trim(t) # <<>> /\ \A i \in 1..Len(Trim(t)) : Trim(t)[i] \in DigitChars

\* C14 (as claimed): each numeric field of the payload is the parsed number
\* when the input text is numeric and is absent when it is not, in particular
\* when the field was left empty.
C14_NumberOrAbsent ==
  payload # NoInput =>
    \A f \in NumericFields(formType) :
      IF IsNumericText(input[f[1]])
      THEN f[2] \in DOMAIN payload /\ payload[f[2]].type = "number"
      ELSE f[2] \notin DOMAIN payload

\* the text inputs that are not registered as required, and their payload keys
OptionalTextFields(ft) ==
  IF ft = "research"
  THEN {<<"abstract", "abstract">>, <<"description", "description">>,
        <<"fundingAgency", "funding_agency">>, <<"keywords", "keywords">>,
        <<"methodology", "methodology">>, <<"expectedOutcomes", "expected_outcomes">>,
        <<"publicationsUrl", "publications_url">>, <<"projectUrl", "project_url">>,
        <<"githubUrl", "github_url">>}
  ELSE {<<"keywords", "keywords">>, <<"discipline", "discipline">>, <<"pages", "pages">>}

\* C15 (as claimed): every optional text field is trimmed in the payload and
\* is absent from it, never an empty string, when it is empty after trimming;
\* this includes abstract and description of the research form.
C15_OptionalTextAbsent ==
  payload # NoInput =>
    \A f \in OptionalTextFields(formType) :
      IF Trim(input[f[1]]) = <<>>
      THEN f[2] \notin DOMAIN payload
      ELSE payload[f[2]] = JsString(Trim(input[f[1]]))

\* C21: on a non-2xx response of the OTP or of the submission request, the
\* message shown is the detail field of the body when it is non-empty,
\* otherwise its error field when non-empty, otherwise the fixed text of the
\* operation: "Failed to submit research", "Failed to submit article",
\* "Unable to send verification code".
C21_FailureMessageOrder ==
  [][ /\ (OwnRequestSettled /\ response'.kind = "http" /\ ~response'.ok)
        => toast' = IF response'.detail # "" THEN response'.detail
                    ELSE IF response'.error # "" THEN response'.error
                    ELSE IF formType = "research" THEN "Failed to submit research"
                    ELSE "Failed to submit article"
      /\ (OtpSettled /\ otpResponse'.kind = "http" /\ ~otpResponse'.ok)
        => toast' = IF otpResponse'.detail # "" THEN otpResponse'.detail
                    ELSE IF otpResponse'.error # "" THEN otpResponse'.error
                    ELSE "Unable to send verification code"
    ]_vars

\* a submission was answered with a non-2xx status and a body that has both
\* fields: the detail text is shown
C21_Witness ==
  /\ response.kind = "http" /\ ~response.ok
  /\ response.detail = "Invalid OTP session"
  /\ response.error = "Server error"
  /\ toast = "Invalid OTP session"
  /\ isVerified
  /\ net = {}

\* C22: when the value stored under verification_complete cannot be parsed as
\* a proof record (text that is not JSON, or the JSON value null), the effect
\* ends in its own catch block (no error leaves it), the form is Unverified
\* with its values as they were, and storage still holds the value found.
C22_UnparsableIgnored ==
  [][ ( /\ EffectRan
        /\ verifiedParam' = "true"
        /\ storage'.kind \in {"garbage", "jsonnull"} )
        => /\ EffectEnd(formType, verifiedParam', storage', now') = "caught"
           /\ EffectChangedNothing
           /\ ~isVerified'
           /\ toast' = toast
           /\ mount' = mount => storage' = storage
    ]_vars

\* the page was entered again with verified=true and the JSON value null
\* under the key: the form is Unverified with its default values
C22_Witness ==
  /\ mount > 1
  /\ verifiedParam = "true"
  /\ storage.kind = "jsonnull"
  /\ ~isVerified
  /\ verificationData = Null
  /\ values = defaultValues

\* C23: the effect changes nothing (isVerified, verificationData, form values
\* and storage) when the query parameter verified is missing or is any text
\* other than exactly "true", even with a fresh proof of the form's purpose
\* in storage, and also when verified is "true" and the key is absent.
C23_NoParamNoIngestion ==
  [][ (EffectRan /\ (verifiedParam' # "true" \/ storage'.kind = "absent"))
        => /\ EffectChangedNothing
           /\ toast' = toast
           /\ accepted' = (IF mount' # mount THEN NoProof ELSE accepted)
           /\ mount' = mount => storage' = storage
    ]_vars

\* the page was entered with verified=1 and a fresh proof of the form's
\* purpose under the key: the form is Unverified
C23_Witness ==
  /\ mount > 1
  /\ verifiedParam = "1"
  /\ storage.kind = "record"
  /\ storage.data.purpose = ExpectedPurpose(formType)
  /\ storage.data.sessionId # 0
  /\ now - storage.data.verifiedAt < TTL
  /\ ~isVerified
  /\ verificationData = Null
  /\ values = defaultValues

\* C24: in every reachable state of either form the person list has at least
\* one row. A step that adds rows appends exactly one default row; a step
\* that takes rows away within a mounted form is either a remove of one row
\* while more than one exists, or the reset after a successful submission,
\* which leaves exactly one default row; a newly mounted form starts with
\* its one default row.
C24_AtLeastOneRow ==
  /\ [](Len(values.persons) >= 1)
  /\ [][ /\ (Len(values'.persons) > Len(values.persons))
            => values'.persons = Append(values.persons, DefaultPerson)
         /\ (Len(values'.persons) < Len(values.persons))
            => \/ /\ mount' = mount
                  /\ ~OwnRequestSettled
                  /\ Len(values.persons) > 1
                  /\ Len(values'.persons) = Len(values.persons) - 1
               \/ /\ mount' = mount
                  /\ OwnRequestSettled
                  /\ toast' = MsgSuccess(formType)
                  /\ values'.persons = <<DefaultPerson>>
               \/ /\ mount' # mount
                  /\ values'.persons = <<DefaultPerson>>
         /\ (OwnRequestSettled /\ toast' = MsgSuccess(formType))
            => values'.persons = <<DefaultPerson>>
       ]_vars

\* a row was appended after the first one was filled in
C24_Witness ==
  /\ isVerified
  /\ Len(values.persons) = 2
  /\ values.persons[1].name = <<"a", " ">>
  /\ values.persons[2] = DefaultPerson

\* the path with one leading "/" put in front when it has none
WithLeadingSlash(p) == IF p = <<>> \/ Head(p) # "/" THEN <<"/">> \o p ELSE p

\* the proxy flag is on: NEXT_PUBLIC_USE_PROXY reads "true" in any letter case
ProxyFlagOn ==
  /\ envUseProxy.set
  /\ envUseProxy.text \in {<<"t", "r", "u", "e">>, <<"T", "R", "U", "E">>,
                            <<"T", "r", "u", "e">>}

\* C25: getPublicApiUrl(path) returns "/api/proxy" followed by the path, with
\* one leading "/" supplied if it has none, when the proxy flag is on, and
\* otherwise "https://cdn.tcioe.edu.np" followed by that same normalized path;
\* the result is the same with the debug flag on and off, and the call
\* changes nothing but its result.
C25_PublicApiUrl ==
  [][ (url = <<>> /\ url' # <<>>)
        => /\ url' = (IF ProxyFlagOn THEN <<"/", "api", "/", "proxy">>
                       ELSE <<"https:", "/", "/", "cdn.tcioe.edu.np">>)
                      \o WithLeadingSlash(path)
           /\ \A dbg \in BOOLEAN : url' = getPublicApiUrl(path, USE_PROXY, dbg)
           /\ UNCHANGED <<formVars, stepVars, payloadVars, envUseProxy, envDebug,
                          envPublicDebug, path>>
    ]_vars

\* with NEXT_PUBLIC_USE_PROXY=TRUE and the debug flag on, the path x/y was
\* given its leading slash behind /api/proxy
C25_Witness ==
  /\ envUseProxy = [set |-> TRUE, text |-> <<"T", "R", "U", "E">>]
  /\ DEBUG_API
  /\ path = <<"x", "/", "y">>
  /\ url = <<"/", "api", "/", "proxy", "/", "x", "/", "y">>

\* C26 (as claimed): in both forms a person row with an empty name is an
\* unfilled optional row and no error: in a Verified form with its title
\* filled in and no submission under way, when one row has a name and
\* another has none, the submit action sends a request, and the request
\* carries only the named rows.
C26_BlankRowNoError ==
  ( /\ isVerified
    /\ SubmitAllowed(isVerified, verificationData)
    /\ request = NoRequest
    /\ net = {}
    /\ values.title # <<>>
    /\ \E i \in 1..Len(values.persons) : Trim(values.persons[i].name) # <<>>
    /\ \E i \in 1..Len(values.persons) : values.persons[i].name = <<>> )
  => ENABLED ( /\ Submit
               /\ request' # NoRequest
               /\ \A j \in 1..Len(request'.body.persons) :
                    request'.body.persons[j].name # <<>> )

\* C27 (as claimed): in every reachable state, isVerified = true implies that
\* verificationData is non-null and holds a non-empty sessionId, so the form
\* is never shown in a state where the re-check of onSubmit rejects every
\* submission.
C27_VerifiedHasSession ==
  isVerified => (verificationData # Null /\ verificationData.sessionId # 0)

\* C28: the journal form never issues a submission request whose authors
\* array is empty: when no row has a non-empty trimmed given name, onSubmit
\* shows "Add at least one author" and returns before the request, leaving
\* form values and verified state as they were. The research form has no
\* such check: it never shows that message, and with no named row it issues
\* the request with an empty participants array.
C28_JournalNeedsAuthor ==
  [][ /\ (RequestIssued /\ formType = "journal")
        => /\ request'.body.persons # <<>>
           /\ \E i \in 1..Len(values.persons) : Trim(values.persons[i].name) # <<>>
      /\ (toast # "Add at least one author" /\ toast' = "Add at least one author")
        => /\ formType = "journal"
           /\ \A i \in 1..Len(values.persons) : Trim(values.persons[i].name) = <<>>
           /\ request' = NoRequest
           /\ UNCHANGED <<values, isVerified, verificationData, storage, net>>
      /\ ( /\ formType = "research"
           /\ request = NoRequest
           /\ SubmitAllowed(isVerified, verificationData)
           /\ \A i \in 1..Len(values.persons) : Trim(values.persons[i].name) = <<>>
           /\ toast' # toast )
        => toast' # "Add at least one author"
      /\ (RequestIssued /\ formType = "research"
           /\ \A i \in 1..Len(values.persons) : Trim(values.persons[i].name) = <<>>)
        => request'.body.persons = <<>>
    ]_vars

\* the journal form, Verified and with its title filled in, was submitted
\* with two rows whose given names are blanks: onSubmit stopped at the check
C28_Witness ==
  /\ formType = "journal"
  /\ toast = "Add at least one author"
  /\ isVerified
  /\ values.title # <<>>
  /\ Len(values.persons) = 2
  /\ \A i \in 1..2 : values.persons[i].name = <<" ">>
  /\ request = NoRequest
  /\ net = {}

\* C29 (as claimed): the verification step navigates to /verification only
\* with a session identifier issued by the server: the router has left the
\* form page only after a response that carried session_id or sessionId, and
\* the session parameter of the URL is that identifier.
C29_SessionFromServer ==
  location # FormPage
    => /\ otpResponse.kind = "http"
       /\ otpResponse.json
       /\ otpResponse.session_id # "" \/ otpResponse.sessionId # ""
       /\ location[Len(location)] \in {otpResponse.session_id, otpResponse.sessionId} \ {""}

\* C30 (as claimed): every submission request carries a non-empty
\* submitted_by_name, whatever proof record the form accepted, a record
\* without a name included.
C30_NameInEveryRequest ==
  request # NoRequest => request.body.submitted_by_name # <<>>

====
